---- MODULE Spec2Model ----
(***************************************************************************)
(* Discompress backend: POST /api/upload compresses an uploaded video      *)
(* under a byte budget with a multi-pass bitrate loop.  src/server.js      *)
(* holds two revisions of the handler: the queue revision (lines 144-280), *)
(* which runs probe+encode inside a FIFO admission queue, and the simple   *)
(* revision (lines 1-142), which runs them directly in the handler.        *)
(***************************************************************************)
EXTENDS Integers, Sequences, FiniteSets, TLC

\* ------------------------------------------------------------------ bounds
MaxRequests == 1       \* requests in a behaviour of Spec
MaxQueueRequests == 3  \* requests in a behaviour of SpecQueue
MaxConcurrency == 2    \* largest CONCURRENCY the environment may configure
MaxClock == 1          \* last reading of Date.now() (readings are 0..MaxClock)

Jobs == 1..MaxRequests
QueueJobs == 1..MaxQueueRequests
PairJobs == 1..(MaxRequests + 1)
OneJob == {1}

\* ------------------------------------------------------- caller file names
\* Characters are one-letter strings; a file name is a sequence of them.
WordChars == {"a", "d", "e", "i", "m", "o", "v"}

\* the complement of the class [^\w.\- ] used by the sanitizing replace
Permitted(c) == c \in WordChars \cup {".", "-", " "}

\* originalname values a caller may send (<<>> is an absent/empty name)
Names == { <<"/", "a", ".", "m">>, <<>> }

\* the literal 'video'
VideoDefault == <<"v", "i", "d", "e", "o">>

\* the same replace without the g flag: only the first run of characters
\* outside the class is removed
SanitizeFirstRunOnly(name) ==
  LET e == IF name = <<>> THEN VideoDefault ELSE name
      bad == {k \in 1..Len(e) : ~Permitted(e[k])}
  IN IF bad = {} THEN e
     ELSE LET i == CHOOSE k \in bad : \A m \in bad : k <= m
              n == CHOOSE k \in i..Len(e) :
                     /\ \A m \in i..k : m \in bad
                     /\ k = Len(e) \/ (k + 1) \notin bad
          IN SubSeq(e, 1, i - 1) \o SubSeq(e, n + 1, Len(e))

\* (req.file.originalname || 'video').replace(/[^\w.\- ]+/g, '')
Sanitize(name) ==
  SelectSeq(IF name = <<>> THEN VideoDefault ELSE name, Permitted)

\* index of the last "." of s, 0 when there is none
RECURSIVE LastDot(_, _)
LastDot(s, k) ==
  IF k = 0 THEN 0 ELSE IF s[k] = "." THEN k ELSE LastDot(s, k - 1)

\* originalName.replace(/\.[^.]+$/, ''): drop a final ".ext" with ext non-empty
StripExt(s) ==
  LET d == LastDot(s, Len(s))
  IN IF d = 0 \/ d = Len(s) THEN s ELSE SubSeq(s, 1, d - 1)

\* the base that outName = `discompress_${base}.mp4` embeds
BaseOf(name) == StripExt(Sanitize(name))

\* ------------------------------------------------------------------- paths
\* A path of TMP_DIR is a record.  `${t}_${outName}` begins digits, "_", "d"
\* and `${t}_${i}_${outName}` begins digits, "_", digit, so the two templates
\* never produce the same string and each is injective in (t, i, base):
\* idx = -1 stands for the template without an index.
NoPath == [kind |-> "none", t |-> 0, idx |-> 0, base |-> <<>>]

\* req.file.path: multer's random name, one per request
InputPath(j) == [kind |-> "upload", t |-> 0, idx |-> j, base |-> <<>>]

\* path.join(TMP_DIR, `${Date.now()}_${outName}`)
FirstOutPath(t, name) ==
  [kind |-> "out", t |-> t, idx |-> -1, base |-> BaseOf(name)]

\* path.join(TMP_DIR, `${Date.now()}_${i}_${outName}`)
AttemptPath(t, i, name) ==
  [kind |-> "out", t |-> t, idx |-> i, base |-> BaseOf(name)]

\* path.join(TMP_DIR, `${Date.now()}_retry_${outName}`) of the earliest revision
RetryPath(t, name) ==
  [kind |-> "retry", t |-> t, idx |-> -1, base |-> BaseOf(name)]

\* ------------------------------------------------------------- size budget
\* Math.floor(TARGET_MB * 1024 * 1024) with the default TARGET_MB = 9.8
targetBytes == 10276044

\* sizes fsp.stat may report for an attempt's output: on budget, and over it
Sizes == {targetBytes, targetBytes + 1}

\* a wider choice, under it, on it and over it, for one request alone
AllSizes == {targetBytes - 1, targetBytes, targetBytes + 1, targetBytes + 2}

\* bitrate factors, in percent: factors (queue revision), passes (simple one)
factors == <<100, 82, 68, 56>>
passes == <<100, 85, 72>>

Variants == {"queue", "simple"}

Schedule(v) == IF v = "queue" THEN factors ELSE passes

\* --------------------------------------------------------- bitrate planner
\* Durations are in milliseconds (ffprobe reports fractional seconds); 0 is a
\* missing or zero duration.  Bitrates are in kbps.
Max(a, b) == IF a >= b THEN a ELSE b

\* parseInt(process.env.AUDIO_KBPS || '96', 10)
AUDIO_KBPS == 96

\* Math.max(1, meta.format?.duration || 1), in milliseconds
EffectiveDuration(ms) == IF ms = 0 THEN 1000 ELSE Max(1000, ms)

\* the floor of totalKbps: Math.max(180, ...) / Math.max(200, ...)
FloorTotalKbps(v) == IF v = "queue" THEN 180 ELSE 200

\* the floor of initialVideoKbps: Math.max(56, ...) / Math.max(64, ...)
FloorVideoKbps(v) == IF v = "queue" THEN 56 ELSE 64

\* the floor of a later attempt: Math.max(48, ...)
AttemptFloorKbps == 48

\* Math.max(floor, Math.floor((targetBytes * 8) / duration / 1000)):
\* (tb * 8) / (ms / 1000) / 1000 = (tb * 8) / ms
\* the byte budget taken as if it were bits
TotalKbpsNoBits(v, tb, ms) ==
  Max(FloorTotalKbps(v), tb \div EffectiveDuration(ms))

TotalKbps(v, tb, ms) ==
  Max(FloorTotalKbps(v), (tb * 8) \div EffectiveDuration(ms))

\* the subtraction without the Math.max around it
InitialVideoKbpsNoFloor(v, tb, ms, audio) == TotalKbps(v, tb, ms) - audio

\* Math.max(floor, totalKbps - AUDIO_KBPS)
InitialVideoKbps(v, tb, ms, audio) ==
  Max(FloorVideoKbps(v), TotalKbps(v, tb, ms) - audio)

\* The double 0.82 is 0.81999999999999995...: for these multiples of 50 the
\* product x * 0.82, an integer in exact arithmetic, is rounded to the double
\* just below it (150 * 0.82 = 122.99999999999999).  Holds for 0 <= x <= 82208,
\* the range of totalKbps under the default budget; the doubles 0.85, 0.72,
\* 0.68 and 0.56 give the exact floor over that range.
RoundsDown82(x) ==
  /\ x % 50 = 0
  /\ \/ x \in {150, 300, 600, 1200}
     \/ x \in 2350..2450
     \/ x \in 4700..4950
     \/ x \in 9350..9950
     \/ x \in 18650..19950
     \/ x \in 37250..39950
     \/ x \in 74500..79900

\* Math.floor(initialVideoKbps * factor), the factor given in percent
ScaledKbps(init, pct) ==
  (init * pct) \div 100 - (IF pct = 82 /\ RoundsDown82(init) THEN 1 ELSE 0)

\* a loop floor above the queue revision's planner floor
VideoKbpsNowHighFloor(v, init, i) ==
  IF i = 0 THEN init ELSE Max(64, ScaledKbps(init, Schedule(v)[i + 1]))

\* the scaled bitrate without the Math.max around it
VideoKbpsNowNoFloor(v, init, i) ==
  IF i = 0 THEN init ELSE ScaledKbps(init, Schedule(v)[i + 1])

\* the video bitrate of attempt i (0-based):
\* i === 0 ? initialVideoKbps : Math.max(48, Math.floor(initialVideoKbps * factors[i]))
VideoKbpsNow(v, init, i) ==
  IF i = 0 THEN init
  ELSE Max(AttemptFloorKbps, ScaledKbps(init, Schedule(v)[i + 1]))

\* meta.format.duration values probe reports to the handler, in milliseconds
Durations == {30000}

\* for one request alone: missing, 30 s, and 10 min (totalKbps at its floor)
AllDurations == {0, 30000, 600000}

\* ------------------------------------------------------------------- state
VARIABLES
  variant,      \* which revision of the handler is deployed
  CONCURRENCY,  \* parseInt(process.env.CONCURRENCY || '1', 10)
  now,          \* the reading Date.now() gives
  queue,        \* pending entries { jobFn, resolve, reject }, by request
  running,      \* jobs started by pump whose settle callback has not run
  microtasks,   \* job functions scheduled by Promise.resolve().then(jobFn)
  pc,           \* where each request's handler / job function stands
  reqFile,      \* whether the request carries req.file
  name,         \* req.file.originalname of each request
  duration,     \* meta.format.duration the probe reported, in milliseconds
  firstOut,     \* firstOut of each request
  lastOut,      \* lastOut of each request
  attempts,     \* per request, the encodes invoked: [index, out, size, res]
  streamed,     \* the file handed to streamDownload
  resp,         \* status of the response (0: none yet)
  err,          \* the error the request's job function / handler caught
  cleanup,      \* per request, the argument of each cleanupLater call
  unlinked,     \* per request, the paths its handler unlinked itself
  originalName, \* per request, the sanitized file name
  plan,         \* the bitrate planner applied on its own: inputs and results
  enqOrder,     \* history: requests in the order enqueue was called
  startOrder,   \* history: requests in the order pump started them
  acquired,     \* history: times pump did running++ for the request
  released      \* history: times a settle callback did running-- for it

vars == <<plan, reqFile, duration, unlinked, originalName, variant, CONCURRENCY, now, err, queue, running, microtasks, pc, name,
          firstOut, lastOut, attempts, streamed, resp, cleanup, enqOrder,
          startOrder, acquired, released>>

qvars == <<queue, running, microtasks, enqOrder, startOrder, acquired, released>>

\* the planner has not been applied
NoPlan == [tb |-> 0, ms |-> 0, audio |-> 0, total |-> 0, kbps |-> <<>>]

\* The state after the module is loaded, serving the requests J under a
\* revision of V.  CONCURRENCY is read once from the environment; capacities
\* below 1 (with which pump never starts a job) are not considered.
InitWith(J, V, P, N) ==
  /\ variant \in V
  /\ CONCURRENCY \in 1..MaxConcurrency
  /\ now = 0
  /\ queue = <<>>
  /\ running = 0
  /\ microtasks = <<>>
  /\ pc = [j \in J |-> "new"]
  /\ reqFile = [j \in J |-> "unknown"]
  /\ name \in [J -> N]
  /\ originalName = [j \in J |-> <<>>]
  /\ duration = [j \in J |-> 0]
  /\ unlinked = [j \in J |-> {}]
  /\ plan \in P
  /\ firstOut = [j \in J |-> NoPath]
  /\ lastOut = [j \in J |-> NoPath]
  /\ attempts = [j \in J |-> <<>>]
  /\ streamed = [j \in J |-> NoPath]
  /\ resp = [j \in J |-> 0]
  /\ err = [j \in J |-> "none"]
  /\ cleanup = [j \in J |-> <<>>]
  /\ enqOrder = <<>>
  /\ startOrder = <<>>
  /\ acquired = [j \in J |-> 0]
  /\ released = [j \in J |-> 0]

\* ------------------------------------------------------------------- queue
\* a pump that starts a job only when nothing is running
CanStartOnlyIdle(r, q) == r = 0 /\ Len(q) > 0

CanStartOffByOne(r, q) == ~(r > CONCURRENCY \/ Len(q) = 0)

\* the negation of pump's early return
CanStart(r, q) == ~(r >= CONCURRENCY \/ Len(q) = 0)

Pop(q) == [job |-> q[Len(q)], rest |-> SubSeq(q, 1, Len(q) - 1)]

\* queue.shift(): the entry taken and the entries left
Shift(q) == [job |-> Head(q), rest |-> Tail(q)]

\* pump() applied to a queue state s = [queue, running, microtasks, pc,
\* startOrder, acquired]: starts at most one pending job
pump(s) ==
  IF ~CanStart(s.running, s.queue) THEN s
  ELSE LET e == Shift(s.queue)
       IN [queue |-> e.rest,
           running |-> s.running + 1,
           microtasks |-> Append(s.microtasks, e.job),
           pc |-> [s.pc EXCEPT ![e.job] = "scheduled"],
           startOrder |-> Append(s.startOrder, e.job),
           acquired |-> [s.acquired EXCEPT ![e.job] = @ + 1]]

\* the queue state the module's variables hold
QState ==
  [queue |-> queue, running |-> running, microtasks |-> microtasks,
   pc |-> pc, startOrder |-> startOrder, acquired |-> acquired]

SetQState(s) ==
  /\ queue' = s.queue
  /\ running' = s.running
  /\ microtasks' = s.microtasks
  /\ pc' = s.pc
  /\ startOrder' = s.startOrder
  /\ acquired' = s.acquired

\* enqueue(jobFn) for request j: push, then pump
enqueue(j) ==
  /\ SetQState(pump([QState EXCEPT !.queue = Append(queue, j),
                                   !.pc = [pc EXCEPT ![j] = "queued"]]))
  /\ enqOrder' = Append(enqOrder, j)

\* --------------------------------------------------------- handler helpers
Last(s) == s[Len(s)]

SetLast(s, x) == [s EXCEPT ![Len(s)] = x]

\* a new Attempt: encode(inputPath, out, ...) has just been invoked
NewAttempt(i, out, kbps) ==
  [index |-> i, out |-> out, videoKbps |-> kbps, size |-> 0, res |-> "running"]

\* cleanupLater(paths): the paths the timer will unlink (it skips null)
cleanupLater(paths) == {paths[k] : k \in 1..Len(paths)} \ {NoPath}

\* the argument of cleanupLater in the catch block
\* a catch block that schedules the first output only
CatchPathsNoInput(v, j) == <<firstOut[j]>>

CatchPaths(v, j) ==
  IF v = "queue" THEN <<InputPath(j)>> ELSE <<InputPath(j), firstOut[j]>>

\* the argument of cleanupLater after streamDownload returned
SuccessPaths(v, j) ==
  IF v = "queue" THEN <<InputPath(j), streamed[j]>>
  ELSE <<InputPath(j),
         IF firstOut[j] # lastOut[j] THEN firstOut[j] ELSE NoPath,
         lastOut[j]>>

BreakLoopStrict(sz) == sz < targetBytes

\* `if (sz <= targetBytes) break`
BreakLoop(sz) == sz <= targetBytes

NewLastOutStale(old, out) == old

\* `lastOut = out`
NewLastOut(old, out) == out

LoopExitStreamsInJob(v) == "streaming"

LoopExitThrows(v) == IF v = "queue" THEN "rejected" ELSE "streaming"

\* where control goes when the loop is left: the job function returns to the
\* queue's settle callback, or the simple handler calls streamDownload
LoopExit(v) == IF v = "queue" THEN "resolved" ELSE "streaming"

\* settle callbacks that never give the slot back
SettledRunningNoRelease(r, ok) == r

SettledRunningCatchForgets(r, ok) == IF ok THEN r - 1 ELSE r

\* `running--` in the settle callbacks (.then: ok, .catch: ~ok)
SettledRunning(r, ok) == r - 1

\* a rejected await: the job function rejects (queue revision), or the
\* handler's catch block runs (simple revision)
Abort(j, e) ==
  /\ err' = [err EXCEPT ![j] = e]
  /\ IF variant = "queue"
     THEN /\ pc' = [pc EXCEPT ![j] = "rejected"]
          /\ UNCHANGED <<resp, cleanup>>
     ELSE /\ pc' = [pc EXCEPT ![j] = "done"]
          /\ cleanup' = [cleanup EXCEPT
                ![j] = Append(@, cleanupLater(CatchPaths(variant, j)))]
          /\ resp' = [resp EXCEPT ![j] = 500]

\* ----------------------------------------------------------------- actions
\* Date.now() advances
Tick ==
  /\ now < MaxClock
  /\ now' = now + 1
  /\ UNCHANGED <<plan, reqFile, duration, unlinked, originalName, variant, CONCURRENCY, err, queue, running, microtasks, pc,
                 name, firstOut, lastOut, attempts, streamed, resp, cleanup,
                 enqOrder, startOrder, acquired, released>>

\* POST /api/upload without a file: 400
ArriveNoFile(j) ==
  /\ pc[j] = "new"
  /\ \A k \in DOMAIN pc : k < j => pc[k] # "new"
  /\ reqFile' = [reqFile EXCEPT ![j] = "absent"]
  /\ resp' = [resp EXCEPT ![j] = 400]
  /\ pc' = [pc EXCEPT ![j] = "done"]
  /\ UNCHANGED <<plan, duration, unlinked, originalName, variant, CONCURRENCY, now, err, queue, running, microtasks, name,
                 firstOut, lastOut, attempts, streamed, cleanup, enqOrder,
                 startOrder, acquired, released>>

\* POST /api/upload with a file, queue revision: enqueue the job function
ArriveQueue(j, nm) ==
  /\ variant = "queue"
  /\ pc[j] = "new"
  /\ \A k \in DOMAIN pc : k < j => pc[k] # "new"
  /\ reqFile' = [reqFile EXCEPT ![j] = "present"]
  /\ name' = [name EXCEPT ![j] = nm]
  /\ enqueue(j)
  /\ UNCHANGED <<plan, duration, unlinked, originalName, variant, CONCURRENCY, now, err, firstOut, lastOut, attempts,
                 streamed, resp, cleanup, released>>

\* POST /api/upload with a file, simple revision: names, then probe
ArriveSimple(j, nm) ==
  /\ variant = "simple"
  /\ pc[j] = "new"
  /\ \A k \in DOMAIN pc : k < j => pc[k] # "new"
  /\ reqFile' = [reqFile EXCEPT ![j] = "present"]
  /\ name' = [name EXCEPT ![j] = nm]
  /\ originalName' = [originalName EXCEPT ![j] = Sanitize(nm)]
  /\ firstOut' = [firstOut EXCEPT ![j] = FirstOutPath(now, nm)]
  /\ pc' = [pc EXCEPT ![j] = "probe"]
  /\ UNCHANGED <<plan, duration, unlinked, variant, CONCURRENCY, now, err, lastOut, attempts, streamed,
                 resp, cleanup, qvars>>

\* the job function starts (oldest scheduled microtask): names, then probe
JobFnBegin(j) ==
  /\ microtasks # <<>>
  /\ Head(microtasks) = j
  /\ microtasks' = Tail(microtasks)
  /\ originalName' = [originalName EXCEPT ![j] = Sanitize(name[j])]
  /\ firstOut' = [firstOut EXCEPT ![j] = FirstOutPath(now, name[j])]
  /\ pc' = [pc EXCEPT ![j] = "probe"]
  /\ UNCHANGED <<plan, reqFile, duration, unlinked, variant, CONCURRENCY, now, err, queue, running, name, lastOut,
                 attempts, streamed, resp, cleanup, enqOrder, startOrder,
                 acquired, released>>

\* probe resolved: plan, enter the loop, invoke encode for index 0
ProbeOk(j, d) ==
  /\ pc[j] = "probe"
  /\ lastOut' = [lastOut EXCEPT ![j] = firstOut[j]]
  /\ duration' = [duration EXCEPT ![j] = d]
  /\ attempts' = [attempts EXCEPT ![j] = <<NewAttempt(0, firstOut[j],
        VideoKbpsNow(variant,
                     InitialVideoKbps(variant, targetBytes, d, AUDIO_KBPS),
                     0))>>]
  /\ pc' = [pc EXCEPT ![j] = "encode"]
  /\ UNCHANGED <<plan, reqFile, unlinked, originalName, variant, CONCURRENCY, now, err, name, firstOut, streamed, resp,
                 cleanup, qvars>>

\* probe rejected
ProbeFail(j) ==
  /\ pc[j] = "probe"
  /\ Abort(j, "ProbeError")
  /\ UNCHANGED <<plan, reqFile, duration, unlinked, originalName, variant, CONCURRENCY, now, name, firstOut, lastOut, attempts,
                 streamed, qvars>>

\* encode resolved: stat the output
EncodeOk(j) ==
  /\ pc[j] = "encode"
  /\ attempts' = [attempts EXCEPT
                    ![j] = SetLast(@, [Last(@) EXCEPT !.res = "encoded"])]
  /\ pc' = [pc EXCEPT ![j] = "stat"]
  /\ UNCHANGED <<plan, reqFile, duration, unlinked, originalName, variant, CONCURRENCY, now, err, name, firstOut, lastOut, streamed,
                 resp, cleanup, qvars>>

\* encode rejected
EncodeFail(j) ==
  /\ pc[j] = "encode"
  /\ attempts' = [attempts EXCEPT
                    ![j] = SetLast(@, [Last(@) EXCEPT !.res = "encodeFailed"])]
  /\ Abort(j, "EncodeError")
  /\ UNCHANGED <<plan, reqFile, duration, unlinked, originalName, variant, CONCURRENCY, now, name, firstOut, lastOut, streamed,
                 qvars>>

\* stat rejected
StatFail(j) ==
  /\ pc[j] = "stat"
  /\ attempts' = [attempts EXCEPT
                    ![j] = SetLast(@, [Last(@) EXCEPT !.res = "statFailed"])]
  /\ Abort(j, "StatError")
  /\ UNCHANGED <<plan, reqFile, duration, unlinked, originalName, variant, CONCURRENCY, now, name, firstOut, lastOut, streamed,
                 qvars>>

\* stat resolved with size sz: record it, then break, leave the loop at its
\* end, or invoke encode for the next index
StatOk(j, sz) ==
  /\ pc[j] = "stat"
  /\ LET cur == Last(attempts[j])
         done == [cur EXCEPT !.size = sz, !.res = "measured"]
         i == cur.index + 1
         lo == NewLastOut(lastOut[j], cur.out)
     IN /\ lastOut' = [lastOut EXCEPT ![j] = lo]
        /\ IF BreakLoop(sz) \/ ~(i < Len(Schedule(variant)))
           THEN /\ attempts' = [attempts EXCEPT ![j] = SetLast(@, done)]
                /\ pc' = [pc EXCEPT ![j] = LoopExit(variant)]
                /\ streamed' = [streamed EXCEPT
                      ![j] = IF LoopExit(variant) = "streaming" THEN lo ELSE @]
           ELSE /\ attempts' = [attempts EXCEPT
                      ![j] = Append(SetLast(@, done),
                                    NewAttempt(i, AttemptPath(now, i, name[j]),
                          VideoKbpsNow(variant,
                            InitialVideoKbps(variant, targetBytes,
                                             duration[j], AUDIO_KBPS),
                            i)))]
                /\ pc' = [pc EXCEPT ![j] = "encode"]
                /\ UNCHANGED streamed
  /\ UNCHANGED <<plan, reqFile, duration, unlinked, originalName, variant, CONCURRENCY, now, err, name, firstOut, resp, cleanup,
                 qvars>>

\* the queue's settle callback of job j: running--, pump(), resolve / reject
Settle(j) ==
  /\ variant = "queue"
  /\ pc[j] \in {"resolved", "rejected"}
  /\ LET ok == pc[j] = "resolved"
         r == SettledRunning(running, ok)
     IN /\ SetQState(pump([QState EXCEPT
               !.running = r,
               !.pc = [pc EXCEPT ![j] = IF ok THEN "deliver" ELSE "failed"]]))
        /\ released' = [released EXCEPT ![j] = @ + (running - r)]
  /\ UNCHANGED <<plan, reqFile, duration, unlinked, originalName, variant, CONCURRENCY, now, err, name, firstOut, lastOut, attempts,
                 streamed, resp, cleanup, enqOrder>>

\* `await enqueue(...)` resumed with { filePath, outName }: streamDownload
Deliver(j) ==
  /\ pc[j] = "deliver"
  /\ streamed' = [streamed EXCEPT ![j] = lastOut[j]]
  /\ pc' = [pc EXCEPT ![j] = "streaming"]
  /\ UNCHANGED <<plan, reqFile, duration, unlinked, originalName, variant, CONCURRENCY, now, err, name, firstOut, lastOut, attempts,
                 resp, cleanup, qvars>>

\* `await enqueue(...)` threw: the catch block
HandlerCatch(j) ==
  /\ pc[j] = "failed"
  /\ cleanup' = [cleanup EXCEPT
                   ![j] = Append(@, cleanupLater(CatchPaths(variant, j)))]
  /\ resp' = [resp EXCEPT ![j] = 500]
  /\ pc' = [pc EXCEPT ![j] = "done"]
  /\ UNCHANGED <<plan, reqFile, duration, unlinked, originalName, variant, CONCURRENCY, now, err, name, firstOut, lastOut, attempts,
                 streamed, qvars>>

\* the read stream closed: streamDownload returns, cleanupLater
StreamClose(j) ==
  /\ pc[j] = "streaming"
  /\ cleanup' = [cleanup EXCEPT
                   ![j] = Append(@, cleanupLater(SuccessPaths(variant, j)))]
  /\ resp' = [resp EXCEPT ![j] = 200]
  /\ pc' = [pc EXCEPT ![j] = "done"]
  /\ UNCHANGED <<plan, reqFile, duration, unlinked, originalName, variant, CONCURRENCY, now, err, name, firstOut, lastOut, attempts,
                 streamed, qvars>>

\* the read stream failed: streamDownload rejects, the catch block
StreamError(j) ==
  /\ pc[j] = "streaming"
  /\ err' = [err EXCEPT ![j] = "StreamError"]
  /\ cleanup' = [cleanup EXCEPT
                   ![j] = Append(@, cleanupLater(CatchPaths(variant, j)))]
  /\ resp' = [resp EXCEPT ![j] = 500]
  /\ pc' = [pc EXCEPT ![j] = "done"]
  /\ UNCHANGED <<plan, reqFile, duration, unlinked, originalName, variant, CONCURRENCY, now, name, firstOut, lastOut, attempts,
                 streamed, qvars>>

Init == InitWith(Jobs, Variants, {NoPlan}, {<<>>})

Next ==
  \/ Tick
  \/ \E j \in Jobs : ArriveNoFile(j)
  \/ \E j \in Jobs, nm \in Names : ArriveQueue(j, nm)
  \/ \E j \in Jobs, nm \in Names : ArriveSimple(j, nm)
  \/ \E j \in Jobs : JobFnBegin(j)
  \/ \E j \in Jobs, d \in Durations : ProbeOk(j, d)
  \/ \E j \in Jobs : ProbeFail(j)
  \/ \E j \in Jobs : EncodeOk(j)
  \/ \E j \in Jobs : EncodeFail(j)
  \/ \E j \in Jobs, sz \in Sizes : StatOk(j, sz)
  \/ \E j \in Jobs : StatFail(j)
  \/ \E j \in Jobs : Settle(j)
  \/ \E j \in Jobs : Deliver(j)
  \/ \E j \in Jobs : HandlerCatch(j)
  \/ \E j \in Jobs : StreamClose(j)
  \/ \E j \in Jobs : StreamError(j)

Spec == Init /\ [][Next]_vars

\* The size-targeting controller: one request, every size of AllSizes.
InitController == InitWith(OneJob, Variants, {NoPlan}, {<<>>})

NextController ==
  \/ Tick
  \/ \E j \in OneJob : ArriveNoFile(j)
  \/ \E j \in OneJob, nm \in Names : ArriveQueue(j, nm)
  \/ \E j \in OneJob, nm \in Names : ArriveSimple(j, nm)
  \/ \E j \in OneJob : JobFnBegin(j)
  \/ \E j \in OneJob, d \in AllDurations : ProbeOk(j, d)
  \/ \E j \in OneJob : ProbeFail(j)
  \/ \E j \in OneJob : EncodeOk(j)
  \/ \E j \in OneJob : EncodeFail(j)
  \/ \E j \in OneJob, sz \in AllSizes : StatOk(j, sz)
  \/ \E j \in OneJob : StatFail(j)
  \/ \E j \in OneJob : Settle(j)
  \/ \E j \in OneJob : Deliver(j)
  \/ \E j \in OneJob : HandlerCatch(j)
  \/ \E j \in OneJob : StreamClose(j)
  \/ \E j \in OneJob : StreamError(j)

SpecController == InitController /\ [][NextController]_vars

\* The bitrate planner and the per-attempt bitrates as pure functions of the
\* probed duration, the byte budget and the audio bitrate.
MaxPlanSteps == 40     \* durations of 15 s, 30 s, ... up to MaxPlanSteps * 15 s

\* missing, under a second, a value whose plan hits the double rounding of
\* 0.82 (initialVideoKbps = 150), a day, and the multiples of 15 s
PlanDurations ==
  {0, 1, 500, 1000, 334000, 86400000} \cup {k * 15000 : k \in 1..MaxPlanSteps}

\* budgets up to the default (TARGET_MB is configurable)
PlanTargets == {1, 1048576, targetBytes}

\* AUDIO_KBPS values (configurable)
PlanAudio == {0, AUDIO_KBPS, 320}

PlanInputs ==
  {[tb |-> tb, ms |-> ms, audio |-> a, total |-> 0, kbps |-> <<>>] :
     tb \in PlanTargets, ms \in PlanDurations, a \in PlanAudio}

InitPlan == InitWith(OneJob, Variants, PlanInputs, {<<>>})

\* totalKbps and initialVideoKbps; attempt 0 is encoded at initialVideoKbps
PlanBitrates ==
  /\ plan.kbps = <<>>
  /\ plan' = [plan EXCEPT
       !.total = TotalKbps(variant, plan.tb, plan.ms),
       !.kbps = <<VideoKbpsNow(variant,
                    InitialVideoKbps(variant, plan.tb, plan.ms, plan.audio),
                    0)>>]
  /\ UNCHANGED <<reqFile, duration, unlinked, originalName, variant, CONCURRENCY, now, err,
                 queue, running, microtasks, pc, name, firstOut, lastOut,
                 attempts, streamed, resp, cleanup, enqOrder, startOrder,
                 acquired, released>>

\* the bitrate of the next attempt of the schedule
PlanAttempt ==
  /\ plan.kbps # <<>>
  /\ Len(plan.kbps) < Len(Schedule(variant))
  /\ plan' = [plan EXCEPT
       !.kbps = Append(@, VideoKbpsNow(variant,
                    InitialVideoKbps(variant, plan.tb, plan.ms, plan.audio),
                    Len(plan.kbps)))]
  /\ UNCHANGED <<reqFile, duration, unlinked, originalName, variant, CONCURRENCY, now, err,
                 queue, running, microtasks, pc, name, firstOut, lastOut,
                 attempts, streamed, resp, cleanup, enqOrder, startOrder,
                 acquired, released>>

NextPlan ==
  \/ PlanBitrates
  \/ PlanAttempt

SpecPlan == InitPlan /\ [][NextPlan]_vars

\* The admission queue under load: the queue revision serving more requests.
\* The environment is kept quiet (one file name, a frozen clock, encodes that
\* fit at once) so that the interleavings of the queue are explored in full.
QueueNames == {<<>>}
QueueSizes == {targetBytes}

InitQueue == InitWith(QueueJobs, {"queue"}, {NoPlan}, {<<>>})

NextQueue ==
  \/ \E j \in QueueJobs : ArriveNoFile(j)
  \/ \E j \in QueueJobs, nm \in QueueNames : ArriveQueue(j, nm)
  \/ \E j \in QueueJobs : JobFnBegin(j)
  \/ \E j \in QueueJobs, d \in Durations : ProbeOk(j, d)
  \/ \E j \in QueueJobs : ProbeFail(j)
  \/ \E j \in QueueJobs : EncodeOk(j)
  \/ \E j \in QueueJobs : EncodeFail(j)
  \/ \E j \in QueueJobs, sz \in QueueSizes : StatOk(j, sz)
  \/ \E j \in QueueJobs : StatFail(j)
  \/ \E j \in QueueJobs : Settle(j)
  \/ \E j \in QueueJobs : Deliver(j)
  \/ \E j \in QueueJobs : HandlerCatch(j)
  \/ \E j \in QueueJobs : StreamClose(j)
  \/ \E j \in QueueJobs : StreamError(j)

SpecQueue == InitQueue /\ [][NextQueue]_vars

\* The same with the scheduling the event loop gives: a scheduled microtask
\* (the job function, the settle callback) is run, and every started job
\* function settles: each of its awaits resolves or rejects.
FairQueue ==
  \A j \in QueueJobs :
    /\ WF_vars(JobFnBegin(j))
    /\ WF_vars((\E d \in Durations : ProbeOk(j, d)) \/ ProbeFail(j))
    /\ WF_vars(EncodeOk(j) \/ EncodeFail(j))
    /\ WF_vars((\E sz \in QueueSizes : StatOk(j, sz)) \/ StatFail(j))
    /\ WF_vars(Settle(j))

SpecQueueFair == SpecQueue /\ FairQueue

\* Two requests whose job functions run to their end without failures: the
\* names they generate, under every clock reading and caller file name.
InitPair == InitWith(PairJobs, Variants, {NoPlan}, {<<>>})

NextPair ==
  \/ Tick
  \/ \E j \in PairJobs : ArriveNoFile(j)
  \/ \E j \in PairJobs, nm \in Names : ArriveQueue(j, nm)
  \/ \E j \in PairJobs, nm \in Names : ArriveSimple(j, nm)
  \/ \E j \in PairJobs : JobFnBegin(j)
  \/ \E j \in PairJobs, d \in Durations : ProbeOk(j, d)
  \/ \E j \in PairJobs : EncodeOk(j)
  \/ \E j \in PairJobs, sz \in Sizes : StatOk(j, sz)
  \/ \E j \in PairJobs : Settle(j)
  \/ \E j \in PairJobs : Deliver(j)
  \/ \E j \in PairJobs : StreamClose(j)

SpecPair == InitPair /\ [][NextPair]_vars

\* File-name sanitization as a pure function of the caller's originalname.
MaxNameLen == 3

\* a word character, the three permitted punctuation characters, a path
\* separator and another character outside the class
NameAlphabet == {"a", ".", "-", " ", "/", "!"}

\* every originalname over NameAlphabet of at most MaxNameLen characters
AllNames == UNION {[1..n -> NameAlphabet] : n \in 0..MaxNameLen}

InitSanitize == InitWith(OneJob, Variants, {NoPlan}, AllNames)

\* originalName = (req.file.originalname || 'video').replace(...)
SanitizeName(j) ==
  /\ pc[j] = "new"
  /\ originalName' = [originalName EXCEPT ![j] = Sanitize(name[j])]
  /\ pc' = [pc EXCEPT ![j] = "named"]
  /\ UNCHANGED <<plan, reqFile, duration, unlinked, variant, CONCURRENCY,
                 now, err, name, firstOut, lastOut, attempts, streamed, resp,
                 cleanup, qvars>>

\* base, outName, firstOut
BuildFirstOut(j) ==
  /\ pc[j] = "named"
  /\ firstOut' = [firstOut EXCEPT ![j] = FirstOutPath(now, name[j])]
  /\ pc' = [pc EXCEPT ![j] = "pathed"]
  /\ UNCHANGED <<plan, reqFile, duration, unlinked, originalName, variant,
                 CONCURRENCY, now, err, name, lastOut, attempts, streamed,
                 resp, cleanup, qvars>>

NextSanitize ==
  \/ \E j \in OneJob : SanitizeName(j)
  \/ \E j \in OneJob : BuildFirstOut(j)

SpecSanitize == InitSanitize /\ [][NextSanitize]_vars

\* ------------------------------------------------------ earliest revision
\* The earliest revision of the handler: no queue, one encode and at most one
\* retry at 85 %, the first output unlinked as soon as the retry is encoded.

\* `req.file.path` with req.file undefined throws a TypeError before the try
\* block: the async handler's promise rejects.  Express 4 ignores it (no
\* response is ever sent), Express 5 passes it to the error handler (500).
CrashResponses == {0, 500}

\* lines 37-41 with req.file undefined
EarlyArriveNoFile(j, r) ==
  /\ pc[j] = "new"
  /\ reqFile' = [reqFile EXCEPT ![j] = "absent"]
  /\ err' = [err EXCEPT ![j] = "TypeError"]
  /\ resp' = [resp EXCEPT ![j] = r]
  /\ pc' = [pc EXCEPT ![j] = "crashed"]
  /\ UNCHANGED <<plan, duration, unlinked, originalName, variant, CONCURRENCY, now, name,
                 firstOut, lastOut, attempts, streamed, cleanup, qvars>>

\* lines 37-44 with a file: names, outputPath, then probe
EarlyArrive(j, nm) ==
  /\ pc[j] = "new"
  /\ reqFile' = [reqFile EXCEPT ![j] = "present"]
  /\ name' = [name EXCEPT ![j] = nm]
  /\ originalName' = [originalName EXCEPT ![j] = Sanitize(nm)]
  /\ firstOut' = [firstOut EXCEPT ![j] = FirstOutPath(now, nm)]
  /\ pc' = [pc EXCEPT ![j] = "probe"]
  /\ UNCHANGED <<plan, duration, unlinked, variant, CONCURRENCY, now, err,
                 lastOut, attempts, streamed, resp, cleanup, qvars>>

\* the catch block: cleanupLater([inputPath, outputPath]), 500
EarlyCatch(j, e) ==
  /\ err' = [err EXCEPT ![j] = e]
  /\ cleanup' = [cleanup EXCEPT
        ![j] = Append(@, cleanupLater(<<InputPath(j), firstOut[j]>>))]
  /\ resp' = [resp EXCEPT ![j] = 500]
  /\ pc' = [pc EXCEPT ![j] = "done"]

\* probe resolved: plan the bitrate, encode to outputPath
EarlyProbeOk(j, d) ==
  /\ pc[j] = "probe"
  /\ duration' = [duration EXCEPT ![j] = d]
  /\ lastOut' = [lastOut EXCEPT ![j] = firstOut[j]]
  /\ attempts' = [attempts EXCEPT ![j] = <<NewAttempt(0, firstOut[j],
        InitialVideoKbps(variant, targetBytes, d, AUDIO_KBPS))>>]
  /\ pc' = [pc EXCEPT ![j] = "encode"]
  /\ UNCHANGED <<plan, reqFile, unlinked, originalName, variant, CONCURRENCY, now, err,
                 name, firstOut, streamed, resp, cleanup, qvars>>

EarlyProbeFail(j) ==
  /\ pc[j] = "probe"
  /\ EarlyCatch(j, "ProbeError")
  /\ UNCHANGED <<plan, reqFile, duration, unlinked, originalName, variant, CONCURRENCY,
                 now, name, firstOut, lastOut, attempts, streamed, qvars>>

\* encode resolved; after the retry's encode the first output is unlinked
\* at once (`await fsp.unlink(outputPath).catch(()=>{})`), then stat
EarlyEncodeOk(j) ==
  /\ pc[j] = "encode"
  /\ attempts' = [attempts EXCEPT
                    ![j] = SetLast(@, [Last(@) EXCEPT !.res = "encoded"])]
  /\ unlinked' = [unlinked EXCEPT
        ![j] = IF Last(attempts[j]).index = 1 THEN @ \cup {firstOut[j]}
               ELSE @]
  /\ pc' = [pc EXCEPT ![j] = "stat"]
  /\ UNCHANGED <<plan, reqFile, duration, originalName, variant, CONCURRENCY, now, err,
                 name, firstOut, lastOut, streamed, resp, cleanup, qvars>>

EarlyEncodeFail(j) ==
  /\ pc[j] = "encode"
  /\ attempts' = [attempts EXCEPT
                    ![j] = SetLast(@, [Last(@) EXCEPT !.res = "encodeFailed"])]
  /\ EarlyCatch(j, "EncodeError")
  /\ UNCHANGED <<plan, reqFile, duration, unlinked, originalName, variant, CONCURRENCY,
                 now, name, firstOut, lastOut, streamed, qvars>>

\* stat resolved with size sz.  First output over the budget: encode the
\* retry at Math.max(48, Math.floor(videoKbps * 0.85)); otherwise, and after
\* the retry whatever its size, streamDownload
EarlyStatOk(j, sz) ==
  /\ pc[j] = "stat"
  /\ LET cur == Last(attempts[j])
         done == [cur EXCEPT !.size = sz, !.res = "measured"]
     IN IF cur.index = 0 /\ sz > targetBytes
        THEN /\ attempts' = [attempts EXCEPT
                   ![j] = Append(SetLast(@, done),
                            NewAttempt(1, RetryPath(now, name[j]),
                              Max(AttemptFloorKbps,
                                  ScaledKbps(cur.videoKbps, 85))))]
             /\ pc' = [pc EXCEPT ![j] = "encode"]
             /\ UNCHANGED <<lastOut, streamed>>
        ELSE /\ attempts' = [attempts EXCEPT ![j] = SetLast(@, done)]
             /\ lastOut' = [lastOut EXCEPT ![j] = cur.out]
             /\ streamed' = [streamed EXCEPT ![j] = cur.out]
             /\ pc' = [pc EXCEPT ![j] = "streaming"]
  /\ UNCHANGED <<plan, reqFile, duration, unlinked, originalName, variant, CONCURRENCY,
                 now, err, name, firstOut, resp, cleanup, qvars>>

EarlyStatFail(j) ==
  /\ pc[j] = "stat"
  /\ attempts' = [attempts EXCEPT
                    ![j] = SetLast(@, [Last(@) EXCEPT !.res = "statFailed"])]
  /\ EarlyCatch(j, "StatError")
  /\ UNCHANGED <<plan, reqFile, duration, unlinked, originalName, variant, CONCURRENCY,
                 now, name, firstOut, lastOut, streamed, qvars>>

\* the read stream closed: cleanupLater([inputPath, <the streamed path>])
EarlyStreamClose(j) ==
  /\ pc[j] = "streaming"
  /\ cleanup' = [cleanup EXCEPT
        ![j] = Append(@, cleanupLater(<<InputPath(j), streamed[j]>>))]
  /\ resp' = [resp EXCEPT ![j] = 200]
  /\ pc' = [pc EXCEPT ![j] = "done"]
  /\ UNCHANGED <<plan, reqFile, duration, unlinked, originalName, variant, CONCURRENCY,
                 now, err, name, firstOut, lastOut, attempts, streamed,
                 qvars>>

\* the read stream failed: the catch block
EarlyStreamError(j) ==
  /\ pc[j] = "streaming"
  /\ EarlyCatch(j, "StreamError")
  /\ UNCHANGED <<plan, reqFile, duration, unlinked, originalName, variant, CONCURRENCY,
                 now, name, firstOut, lastOut, attempts, streamed, qvars>>

InitEarliest == InitWith(Jobs, {"earliest"}, {NoPlan}, {<<>>})

NextEarliest ==
  \/ Tick
  \/ \E j \in Jobs, r \in CrashResponses : EarlyArriveNoFile(j, r)
  \/ \E j \in Jobs, nm \in Names : EarlyArrive(j, nm)
  \/ \E j \in Jobs, d \in Durations : EarlyProbeOk(j, d)
  \/ \E j \in Jobs : EarlyProbeFail(j)
  \/ \E j \in Jobs : EarlyEncodeOk(j)
  \/ \E j \in Jobs : EarlyEncodeFail(j)
  \/ \E j \in Jobs, sz \in Sizes : EarlyStatOk(j, sz)
  \/ \E j \in Jobs : EarlyStatFail(j)
  \/ \E j \in Jobs : EarlyStreamClose(j)
  \/ \E j \in Jobs : EarlyStreamError(j)

SpecEarliest == InitEarliest /\ [][NextEarliest]_vars

\* ================================================================== claims
AllJobs == DOMAIN pc

\* started by pump, settle callback not yet run: the job occupies a slot
Occupying(j) ==
  pc[j] \in {"scheduled", "probe", "encode", "stat", "resolved", "rejected"}

\* started by pump and still inside its probe+encode function
InPipeline(j) == pc[j] \in {"scheduled", "probe", "encode", "stat"}

SlotHeld(j) == acquired[j] > released[j]

IsPrefix(s, t) ==
  /\ Len(s) <= Len(t)
  /\ \A k \in 1..Len(s) : s[k] = t[k]

\* C1: the jobs started by pump that have not finished their probe+encode
\* function, and more generally those whose slot is not yet released, never
\* number more than CONCURRENCY.
C1_AtMostCapacity ==
  /\ Cardinality({j \in AllJobs : InPipeline(j)}) <= CONCURRENCY
  /\ Cardinality({j \in AllJobs : Occupying(j)}) <= CONCURRENCY

C1_Witness ==
  /\ CONCURRENCY = 2
  /\ Cardinality({j \in AllJobs : pc[j] = "encode"}) = 2
  /\ \E j \in AllJobs : pc[j] = "queued"

\* C2: pump starts jobs in the order enqueue was called: the start history
\* is always a prefix of the enqueue history.
C2_FifoAdmission == IsPrefix(startOrder, enqOrder)

C2_Witness ==
  /\ CONCURRENCY = 1
  /\ Len(startOrder) = 2
  /\ Len(queue) = 1
  /\ running = 1

\* C7: every job pump started has its slot released exactly once by the
\* settle callback, whether its job function resolved or rejected, and
\* running counts exactly the jobs whose slot is still held.
C7_ReleasedOnce ==
  /\ \A j \in AllJobs :
        /\ acquired[j] <= 1
        /\ released[j] <= acquired[j]
        /\ Occupying(j) => acquired[j] = 1 /\ released[j] = 0
        /\ pc[j] \in {"deliver", "failed", "streaming"} => released[j] = 1
        /\ pc[j] = "done" => released[j] = acquired[j]
  /\ running = Cardinality({j \in AllJobs : SlotHeld(j)})

C7_Witness ==
  /\ CONCURRENCY = 1
  /\ \E j, k \in AllJobs :
        /\ pc[j] = "failed"
        /\ err[j] = "ProbeError"
        /\ released[j] = 1
        /\ pc[k] = "scheduled"

\* C8: a job whose output is being streamed, or whose cleanup is scheduled,
\* holds no slot; and when streaming begins the freed slot has already been
\* offered to the pending jobs.
C8_ReleaseBeforeDelivery ==
  \A j \in AllJobs :
    (pc[j] = "streaming" \/ cleanup[j] # <<>>) =>
      /\ ~SlotHeld(j)
      /\ queue = <<>> \/ running >= CONCURRENCY

C8_Witness ==
  /\ CONCURRENCY = 1
  /\ \E j, k \in AllJobs :
        /\ pc[j] = "streaming"
        /\ pc[k] = "encode"

\* ------------------------------------------------ size-targeting controller
\* attempt k of job j was measured and is over the budget
Over(j, k) ==
  /\ attempts[j][k].res = "measured"
  /\ attempts[j][k].size > targetBytes

\* every attempt the job ran was encoded, measured and over the budget
AllOver(j) ==
  /\ attempts[j] # <<>>
  /\ \A k \in 1..Len(attempts[j]) : Over(j, k)

\* the last attempt was measured and is within the budget
LastFits(j) ==
  /\ attempts[j] # <<>>
  /\ Last(attempts[j]).res = "measured"
  /\ Last(attempts[j]).size <= targetBytes

\* streamDownload has been called for the job
Delivered(j) == streamed[j] # NoPath

\* C3: attempts run in schedule order 0, 1, 2, ..., each one only after
\* every earlier one was measured over the budget; an attempt measured at or
\* under targetBytes ends the loop, and its output is the one delivered.
C3_StopsAtFirstFit ==
  \A j \in AllJobs :
    /\ Len(attempts[j]) <= Len(Schedule(variant))
    /\ \A k \in 1..Len(attempts[j]) :
          /\ attempts[j][k].index = k - 1
          /\ k < Len(attempts[j]) => Over(j, k)
    /\ LastFits(j) =>
          /\ pc[j] \notin {"encode", "stat"}
          /\ lastOut[j] = Last(attempts[j]).out
          /\ pc[j] \in {"streaming", "done"} =>
                streamed[j] = Last(attempts[j]).out

C3_Witness ==
  \E j \in AllJobs :
    /\ variant = "queue"
    /\ Len(attempts[j]) = 2
    /\ attempts[j][1].size = targetBytes + 2
    /\ attempts[j][2].size = targetBytes
    /\ pc[j] = "streaming"
    /\ streamed[j] = attempts[j][2].out

\* C4: when every attempt was measured over the budget and the loop has been
\* left, exactly Len(schedule) encodes were run and the output delivered is
\* the last attempt's, whatever the sizes of the earlier ones.
C4_ExhaustedDeliversLast ==
  \A j \in AllJobs :
    (AllOver(j) /\ pc[j] \notin {"encode", "stat"}) =>
      /\ Len(attempts[j]) = Len(Schedule(variant))
      /\ lastOut[j] = Last(attempts[j]).out
      /\ pc[j] \in {"streaming", "done"} =>
            streamed[j] = Last(attempts[j]).out

C4_Witness ==
  \E j \in AllJobs :
    /\ variant = "queue"
    /\ AllOver(j)
    /\ Len(attempts[j]) = 4
    /\ attempts[j][1].size = targetBytes + 1
    /\ attempts[j][4].size = targetBytes + 2
    /\ pc[j] = "done"
    /\ resp[j] = 200
    /\ streamed[j] = attempts[j][4].out

\* ------------------------------------------------------ delivery and cleanup
\* every path some cleanupLater call of the job was given
Scheduled(j) == UNION {cleanup[j][k] : k \in 1..Len(cleanup[j])}

\* the output paths generated for the job's attempts
OutPaths(j) ==
  ({firstOut[j]} \cup {attempts[j][k].out : k \in 1..Len(attempts[j])})
    \ {NoPath}

\* C5 (as claimed): when the encode of attempt k >= 1 fails, the paths given
\* to deferred deletion hold the output of every earlier attempt 0..k-1.
C5_EarlierOutputsScheduled ==
  \A j \in AllJobs :
    (pc[j] = "done" /\ err[j] = "EncodeError") =>
      \A k \in 1..(Len(attempts[j]) - 1) : attempts[j][k].out \in Scheduled(j)

\* C6 (as claimed): after the final output was streamed, the paths scheduled
\* for deferred deletion hold the upload and the output of every attempt run.
C6_AllOutputsScheduled ==
  \A j \in AllJobs :
    (pc[j] = "done" /\ resp[j] = 200) =>
      /\ InputPath(j) \in Scheduled(j)
      /\ \A k \in 1..Len(attempts[j]) : attempts[j][k].out \in Scheduled(j)

\* the job ran the whole schedule and every attempt was over the budget
Exhausted(j) == AllOver(j) /\ Len(attempts[j]) = Len(Schedule(variant))

\* C9 (as claimed): an exhausted job ends with a success, the last output
\* streamed; a job whose probe or encode failed ends with 500, nothing streamed.
C9_OutcomeAsymmetryAsClaimed ==
  \A j \in AllJobs :
    pc[j] = "done" =>
      /\ Exhausted(j) => resp[j] = 200 /\ streamed[j] = Last(attempts[j]).out
      /\ err[j] \in {"ProbeError", "EncodeError"} =>
            resp[j] = 500 /\ ~Delivered(j)

\* C9 (amended): an exhausted job is never aborted: its job function
\* resolves, its last output is streamed, and it ends with a success unless
\* the read stream of the delivery itself fails (then 500); a job whose probe
\* or encode failed ends with 500 and nothing is streamed.
C9_OutcomeAsymmetry ==
  \A j \in AllJobs :
    /\ (Exhausted(j) /\ pc[j] \notin {"encode", "stat"}) =>
          /\ pc[j] \in {"resolved", "deliver", "streaming", "done"}
          /\ err[j] \in {"none", "StreamError"}
          /\ pc[j] \in {"streaming", "done"} =>
                streamed[j] = Last(attempts[j]).out
          /\ pc[j] = "done" =>
                resp[j] = IF err[j] = "StreamError" THEN 500 ELSE 200
    /\ err[j] \in {"ProbeError", "EncodeError"} =>
          /\ ~Delivered(j)
          /\ pc[j] \in {"rejected", "failed", "done"}
          /\ pc[j] = "done" => resp[j] = 500

C9_Witness ==
  \E j \in AllJobs :
    /\ Exhausted(j)
    /\ pc[j] = "done"
    /\ resp[j] = 200
    /\ Last(attempts[j]).size > targetBytes
    /\ streamed[j] = Last(attempts[j]).out

\* C10 (as claimed): the output paths generated for two distinct jobs are
\* disjoint.
C10_DisjointOutputPaths ==
  \A j, k \in AllJobs : j # k => OutPaths(j) \cap OutPaths(k) = {}

\* the planner has been applied to the inputs held in plan
Planned == plan.kbps # <<>>

\* C11: for every positive duration, positive byte budget and audio bitrate
\* >= 0, the planned initialVideoKbps is at least the video floor of the
\* revision (56 or 64), and whenever floor(targetBytes*8/duration/1000) is
\* below the total floor (180 or 200), totalKbps is exactly that floor.
C11_PlannerFloors ==
  (Planned /\ plan.ms > 0 /\ plan.tb > 0 /\ plan.audio >= 0) =>
     /\ plan.kbps[1] >= (IF variant = "queue" THEN 56 ELSE 64)
     /\ (plan.tb * 8) \div plan.ms < (IF variant = "queue" THEN 180 ELSE 200)
          => plan.total = (IF variant = "queue" THEN 180 ELSE 200)

\* a ten-minute input under the default budget: the total is clamped, and the
\* audio bitrate exceeds it, so the video floor is what is planned
C11_Witness ==
  /\ Planned
  /\ plan.ms = 600000
  /\ plan.tb = targetBytes
  /\ plan.audio = 320
  /\ variant = "queue"
  /\ plan.total = 180
  /\ plan.kbps[1] = 56

\* the job probed a 30-second input and has started encoding
ThirtySeconds(j) == duration[j] = 30000 /\ attempts[j] # <<>>

\* the first attempt was measured at or under the budget
FirstFits(j) ==
  /\ attempts[j][1].res = "measured"
  /\ attempts[j][1].size <= targetBytes

\* C12 (as claimed): for a 30-second input, the 9.8 MB budget and 96 kbps
\* audio, totalKbps = 2744 and initialVideoKbps = 2648, the first attempt
\* encodes at 2648 kbps, and if its output is within the budget the job
\* finishes after exactly one attempt.
C12_ThirtySecondPlanAsClaimed ==
  \A j \in AllJobs :
    ThirtySeconds(j) =>
      /\ TotalKbps(variant, targetBytes, duration[j]) = 2744
      /\ attempts[j][1].videoKbps = 2648
      /\ FirstFits(j) =>
            Len(attempts[j]) = 1 /\ pc[j] \notin {"encode", "stat"}

\* C12 (amended): as above with totalKbps = 2740 and initialVideoKbps = 2644:
\* floor(9.8 * 1024 * 1024) = 10276044 bytes, 82208352 bits, over 30 s and
\* 1000 gives 2740.27.
C12_ThirtySecondPlan ==
  \A j \in AllJobs :
    ThirtySeconds(j) =>
      /\ TotalKbps(variant, targetBytes, duration[j]) = 2740
      /\ attempts[j][1].videoKbps = 2644
      /\ FirstFits(j) =>
            Len(attempts[j]) = 1 /\ pc[j] \notin {"encode", "stat"}

C12_Witness ==
  \E j \in AllJobs :
    /\ ThirtySeconds(j)
    /\ attempts[j][1].videoKbps = 2644
    /\ attempts[j][1].size = targetBytes
    /\ Len(attempts[j]) = 1
    /\ pc[j] = "done"
    /\ resp[j] = 200

\* ----------------------------------------------------------- request intake
\* C13 (as claimed): a request without an uploaded file is answered with 400
\* and nothing else happens: it is never enqueued, acquires no slot, runs no
\* probe or encode and schedules no cleanup.
C13_NoFileAnswered400 ==
  \A j \in AllJobs :
    reqFile[j] = "absent" =>
      /\ resp[j] = 400
      /\ \A k \in 1..Len(enqOrder) : enqOrder[k] # j
      /\ acquired[j] = 0
      /\ duration[j] = 0
      /\ attempts[j] = <<>>
      /\ cleanup[j] = <<>>

\* the name the replace is applied to
Effective(nm) == IF nm = <<>> THEN VideoDefault ELSE nm

\* out is made of exactly the characters of in at the positions keep, in order
KeepsInOrder(in, out, keep) ==
  \E f \in [1..Len(out) -> 1..Len(in)] :
    /\ \A k \in 1..Len(out) : out[k] = in[f[k]]
    /\ \A k \in 1..(Len(out) - 1) : f[k] < f[k + 1]
    /\ {f[k] : k \in 1..Len(out)} = keep

\* C14: the sanitized name holds only word characters, dots, hyphens and
\* spaces (no path separator, so the output path is one component of the
\* temporary directory), it keeps every permitted character of the name in
\* order, and it is non-empty whenever the name has a permitted character.
C14_SanitizedName ==
  \A j \in AllJobs :
    pc[j] \in {"named", "pathed"} =>
      LET in == Effective(name[j])
          out == originalName[j]
      IN /\ \A k \in 1..Len(out) :
               out[k] \in WordChars \cup {".", "-", " "}
         /\ \A k \in 1..Len(out) : out[k] # "/"
         /\ KeepsInOrder(in, out, {i \in 1..Len(in) : Permitted(in[i])})
         /\ (\E i \in 1..Len(name[j]) : Permitted(name[j][i])) => out # <<>>
         /\ pc[j] = "pathed" =>
               /\ firstOut[j].kind = "out"
               /\ \A k \in 1..Len(firstOut[j].base) :
                     firstOut[j].base[k] # "/"

\* "/a/" loses both separators and keeps the word character
C14_Witness ==
  \E j \in AllJobs :
    /\ name[j] = <<"/", "a", "/">>
    /\ originalName[j] = <<"a">>
    /\ pc[j] = "pathed"

\* ------------------------------------------------------ per-attempt bitrate
\* the bitrates of the attempts planned so far follow the rule
\* first for index 0, max(floor, floor(first * factor[i])) for i > 0,
\* and none is below the floor
FollowsRule(kbps, v, floor) ==
  \A k \in 1..Len(kbps) :
    /\ k > 1 => kbps[k] = Max(floor, ScaledKbps(kbps[1], Schedule(v)[k]))
    /\ kbps[k] >= floor

\* C15 (as claimed): attempt 0 is encoded at initialVideoKbps and attempt
\* i > 0 at max(floorVideoKbps, floor(initialVideoKbps * factor[i])) with the
\* planner's floorVideoKbps (56 or 64), so no attempt is below that floor.
C15_AttemptFloorAsClaimed ==
  Planned => FollowsRule(plan.kbps, variant,
                         IF variant = "queue" THEN 56 ELSE 64)

\* C15 (amended): the floor of the attempts i > 0 is 48, lower than the
\* planner's; no attempt is below 48, and attempt 0 is not below the
\* planner's floor.
C15_AttemptFloor ==
  Planned =>
    /\ FollowsRule(plan.kbps, variant, 48)
    /\ plan.kbps[1] >= (IF variant = "queue" THEN 56 ELSE 64)

\* ten minutes under the default budget: 84 kbps planned, the last attempt
\* of the queue revision is clamped to 48, below the planner's 56
C15_Witness ==
  /\ variant = "queue"
  /\ plan.tb = targetBytes
  /\ plan.ms = 600000
  /\ plan.audio = AUDIO_KBPS
  /\ plan.kbps = <<84, 68, 57, 48>>

\* ------------------------------------------------------ superseded outputs
\* C16 (as claimed): no attempt output is deleted before the job's delivery
\* stream has completed; files are deleted only by the deferred cleanup
\* scheduled after streaming or after the job aborted, never by the handler
\* itself when an attempt is superseded.
C16_SupersededRetained ==
  \A j \in AllJobs :
    \A p \in unlinked[j] : pc[j] = "done" /\ p \in Scheduled(j)

\* ---------------------------------------------------------- admission queue
\* C17: with CONCURRENCY >= 1, once enqueue or a settle callback has run, a
\* non-empty pending list means that every slot is taken: no job waits in
\* the queue while a slot is free.
C17_WorkConserving ==
  (CONCURRENCY >= 1 /\ queue # <<>>) => running = CONCURRENCY

\* one job settled, its slot passed on to the next, a third still waiting
C17_Witness ==
  /\ CONCURRENCY = 1
  /\ running = 1
  /\ Len(queue) = 1
  /\ \E j \in AllJobs : released[j] = 1

\* the promise returned by enqueue for job j has been settled
EnqueueSettled(j) == pc[j] \in {"deliver", "failed", "streaming", "done"}

\* job j was passed to enqueue
Enqueued(j) == \E k \in 1..Len(enqOrder) : enqOrder[k] = j

\* started at most once, settled at most once, and settled with its own
\* outcome: resolved with a path generated for this job, or rejected with
\* the error of one of its own awaits
OwnOutcome(j) ==
  /\ Cardinality({k \in 1..Len(startOrder) : startOrder[k] = j}) <= 1
  /\ acquired[j] <= 1
  /\ released[j] <= 1
  /\ EnqueueSettled(j) => acquired[j] = 1 /\ released[j] = 1
  /\ pc[j] = "deliver" =>
        /\ err[j] = "none"
        /\ LastFits(j) \/ Exhausted(j)
        /\ lastOut[j] = Last(attempts[j]).out
        /\ lastOut[j] \in OutPaths(j)
  /\ pc[j] = "failed" =>
        /\ err[j] \in {"ProbeError", "EncodeError", "StatError"}
        /\ err[j] = "ProbeError" <=> attempts[j] = <<>>
        /\ err[j] = "EncodeError" =>
              attempts[j] # <<>> /\ Last(attempts[j]).res = "encodeFailed"
        /\ err[j] = "StatError" =>
              attempts[j] # <<>> /\ Last(attempts[j]).res = "statFailed"

\* C18: with CONCURRENCY >= 1 and every started job function settling, every
\* job passed to enqueue is eventually started, exactly once, and its promise
\* is settled, exactly once, with the job's own outcome; once every enqueued
\* job has settled, running = 0 and the pending list is empty.
C18_QueueLiveness ==
  /\ \A j \in QueueJobs : Enqueued(j) ~> EnqueueSettled(j)
  /\ [](\A j \in QueueJobs : Enqueued(j) => OwnOutcome(j))
  /\ []((\A j \in QueueJobs : Enqueued(j) => EnqueueSettled(j))
           => running = 0 /\ queue = <<>>)

\* three jobs went through one slot: all settled, one rejected, one resolved
C18_Witness ==
  /\ CONCURRENCY = 1
  /\ Len(enqOrder) = 3
  /\ \A j \in AllJobs : EnqueueSettled(j)
  /\ \E j, k \in AllJobs : pc[j] = "failed" /\ pc[k] = "deliver"
  /\ running = 0
  /\ queue = <<>>

\* ------------------------------------------------------ upload is cleaned up
\* C19: for a request that carries a file, cleanupLater is called at most
\* once, and when the handler has finished (success, probe, encode, stat or
\* stream failure) it has been called exactly once with a set that holds the
\* uploaded input path.
C19_UploadScheduledOnce ==
  \A j \in AllJobs :
    reqFile[j] = "present" =>
      /\ Len(cleanup[j]) <= 1
      /\ pc[j] = "done" =>
            /\ Len(cleanup[j]) = 1
            /\ InputPath(j) \in cleanup[j][1]
            /\ resp[j] \in {200, 500}

\* the size stat of the second attempt failed
C19_Witness ==
  \E j \in AllJobs :
    /\ reqFile[j] = "present"
    /\ pc[j] = "done"
    /\ err[j] = "StatError"
    /\ Len(attempts[j]) = 2
    /\ resp[j] = 500
    /\ Len(cleanup[j]) = 1
    /\ InputPath(j) \in cleanup[j][1]

\* C20: within one job, for every initialVideoKbps the planner produces, the
\* video bitrate of attempt i+1 is at most that of attempt i, for every
\* consecutive pair of attempts of the schedule.
C20_NonIncreasingBitrate ==
  \A k \in 1..(Len(plan.kbps) - 1) : plan.kbps[k + 1] <= plan.kbps[k]

\* the whole schedule of the queue revision from 150 kbps, where the double
\* product 150 * 0.82 falls just below 123
C20_Witness ==
  /\ variant = "queue"
  /\ plan.ms = 334000
  /\ plan.audio = AUDIO_KBPS
  /\ plan.kbps = <<150, 122, 102, 84>>

====
